---- MODULE Spec2Model ----
(***************************************************************************)
(* Model of backend/server.py: the FinancialDataSimulator (price-path      *)
(* generator and market snapshot over the shared base_prices store), the   *)
(* ranking done by get_market_summary, and the TTLCache in front of the    *)
(* API handlers.                                                           *)
(*                                                                         *)
(* Units.  Python floats are modelled in fixed point:                      *)
(*   - an unrounded price is an integer number of mills (1/1000 dollar);   *)
(*     a float product x * f is the nearest mill of the exact product;     *)
(*   - round(x, 2) turns mills into cents (round-half-even), so every      *)
(*     emitted price field is an integer number of cents;                  *)
(*   - rates (drift, volatility) are in basis points (1/10000);            *)
(*   - standard-normal draws are in hundredths of a standard deviation;    *)
(*   - change_percent is emitted in hundredths of a percent;               *)
(*   - market_cap is in thousands of dollars (share counts in millions);   *)
(*   - the clock counts ticks of 150 seconds.                              *)
(* Optional fields (market_cap, pe_ratio) are <<>> for None, <<v>> for v.  *)
(***************************************************************************)
EXTENDS Integers, Sequences, FiniteSets, TLC

VARIABLES
    symbols,      \* data_simulator.symbols: the tracked universe, in order
    base_prices,  \* data_simulator.base_prices: symbol -> reference price (mills)
    cache,        \* the TTLCache: entries [key, value, expires], least recently used first
    now,          \* the clock read by the cache timer and datetime.utcnow()
    pending,      \* requests accepted by the event loop whose handler has not run yet
    response,     \* what the last handler (or direct call) returned
    market_data,  \* the last Quote batch handed to the ranking
    served,       \* number of handler runs so far
    stored,       \* per cache key, the last value a handler stored and when
    used          \* per key in the cache, the handler run that last stored or read it

vars == <<symbols, base_prices, cache, now, pending, response, market_data, served, stored,
          used>>

----------------------------------------------------------------------------
(* Bounds of the model *)

\* longest price history generated with every draw free
MaxDays == 2
\* calls (handler runs, or direct calls of the simulator) in one behaviour
MaxServed == 4
\* last tick of the clock
MaxTime == 2
\* requests that may wait for the event loop at once
MaxPending == 2
\* largest Quote batch handed to the ranking with every field free
MaxBatch == 6
\* requests in one behaviour of the chart and correlation handlers
MaxCalls == 3
\* capacity of the TTLCache: the program's maxsize=1000, scaled down so that the
\* model's few keys can fill it
maxsize == 2

----------------------------------------------------------------------------
(* Program constants *)

\* TTLCache(ttl=300): 300 s = 2 ticks of 150 s
ttl == 2
\* timedelta(days=1): 86400 s = 576 ticks
DayLen == 576
\* drift = 0.0002, in basis points
drift == 2
\* volatility = 0.02, in basis points
volatility == 200
\* max(..., 0.01): the price floor, in mills
PriceFloor == 10
\* Query(ge=1, le=365)
DaysGe == 1
DaysLe == 365
\* the [:5] and [-5:] slices
TopN == 5
\* generate_realistic_price_data(symbol, 30) in the correlation handler
CorrelationDays == 30
\* market_cap or 1000000, in thousands of dollars
DefaultCap == 1000
\* a rate of 1 in basis points; a standard deviation in hundredths
RateUnit == 10000
ShockUnit == 100

----------------------------------------------------------------------------
(* Arithmetic *)

Max2(a, b) == IF a >= b THEN a ELSE b
Min2(a, b) == IF a <= b THEN a ELSE b
Max3(a, b, c) == Max2(Max2(a, b), c)
Min3(a, b, c) == Min2(Min2(a, b), c)
Abs(a) == IF a < 0 THEN -a ELSE a

\* nearest integer to n/d (d > 0), ties to even: a float operation's rounding
RoundDiv(n, d) ==
    LET q == n \div d
        r == n % d
    IN  IF 2 * r < d THEN q
        ELSE IF 2 * r > d THEN q + 1
        ELSE IF q % 2 = 0 THEN q ELSE q + 1

\* round(x, 2): mills to cents
Round2(x) == RoundDiv(x, 10)

----------------------------------------------------------------------------
(* The symbol universe *)

Symbols ==
    << "JPM", "GS", "MS", "BAC", "C", "WFC", "AAPL", "MSFT", "GOOGL", "AMZN",
       "TSLA", "META", "NVDA", "SPY", "QQQ", "DIA", "IWM", "VTI", "XLF", "XLK" >>

SeqToSet(s) == {s[i] : i \in 1..Len(s)}

\* str.upper() over the symbols requests carry
Upper(s) ==
    IF s = "jpm" THEN "JPM"
    ELSE IF s = "zzz" THEN "ZZZ"
    ELSE s

\* random.uniform(50, 500), in mills
\* draws of uniform(5, 500)
BasePriceDrawsWide == {5000, 500000}

\* random.uniform(50, 500): the ends of the range, in mills
BasePriceDraws == {50000, 500000}

BasePriceSeq == <<50000, 273150, 500000>>

\* __init__: one uniform draw per tracked symbol; seed picks the vector of draws
InitBasePrices(seed) ==
    [s \in SeqToSet(Symbols) |->
        LET i == CHOOSE j \in 1..Len(Symbols) : Symbols[j] = s
        IN  BasePriceSeq[((i + seed) % 3) + 1]]

----------------------------------------------------------------------------
(* FinancialDataSimulator.generate_realistic_price_data *)

\* One day's random draws:
\*   shock  np.random.normal(0, 1)            hundredths of a standard deviation
\*   dv     np.random.uniform(0.5, 2.0)       tenths
\*   zh, zl np.random.normal(0, daily_vol)    hundredths of daily_vol
\*   op     np.random.uniform(0.98, 1.02)     percent
\*   bv     random.randint(1000000, 10000000)
\*   zv     np.random.normal(0, 0.5)          tenths of 0.5
DrawSet ==
    [shock : {-100, -1, 150}, dv : {20}, zh : {0, -150}, zl : {0, 150},
     op : {98, 102}, bv : {1000000}, zv : {-4}]

\* a stream of draws for a whole call, the same draws every day
ConstStream(d) == [i \in 1..CorrelationDays |-> d]

\* the representative streams the request handlers draw from
Streams ==
    << ConstStream([shock |-> 150, dv |-> 20, zh |-> -150, zl |-> 150,
                    op |-> 102, bv |-> 1000000, zv |-> -4]),
       ConstStream([shock |-> -1, dv |-> 5, zh |-> 0, zl |-> 0,
                    op |-> 100, bv |-> 10000000, zv |-> 0]),
       [i \in 1..CorrelationDays |->
           [shock |-> IF i % 2 = 0 THEN -100 ELSE 150, dv |-> 5, zh |-> 0,
            zl |-> 150, op |-> 98, bv |-> 5000000, zv |-> 10]] >>

\* a registration that draws a price whether or not the symbol has one
RegisterAlways(bp, symbol, reg) ==
    [s \in DOMAIN bp \cup {symbol} |-> IF s = symbol THEN reg ELSE bp[s]]

\* a registration that stores no price yet
RegisterUnpriced(bp, symbol, reg) ==
    IF symbol \in DOMAIN bp
    THEN bp
    ELSE [s \in DOMAIN bp \cup {symbol} |-> IF s = symbol THEN 0 ELSE bp[s]]

\* if symbol not in self.base_prices: self.base_prices[symbol] = random.uniform(50, 500)
Register(bp, symbol, reg) ==
    IF symbol \in DOMAIN bp
    THEN bp
    ELSE [s \in DOMAIN bp \cup {symbol} |-> IF s = symbol THEN reg ELSE bp[s]]

\* current_price = max(current_price + current_price * (drift + volatility * shock), 0.01)
NextPrice(current_price, shock) ==
    Max2(current_price
           + RoundDiv(current_price * (drift + (volatility * shock) \div ShockUnit), RateUnit),
         PriceFloor)

\* daily_volatility = volatility * np.random.uniform(0.5, 2.0), in basis points
DailyVolatility(d) == (volatility * d.dv) \div 10

\* high = current_price * (1 + abs(np.random.normal(0, daily_volatility)))
RawHigh(cp, d) ==
    cp + RoundDiv(cp * ((DailyVolatility(d) * Abs(d.zh)) \div ShockUnit), RateUnit)

\* low = current_price * (1 - abs(np.random.normal(0, daily_volatility)))
RawLow(cp, d) ==
    cp - RoundDiv(cp * ((DailyVolatility(d) * Abs(d.zl)) \div ShockUnit), RateUnit)

\* open_price = current_price * np.random.uniform(0.98, 1.02)
OpenPrice(cp, d) == RoundDiv(cp * d.op, 100)

ReconcileHighNoOpen(high, open_price, current_price) == Max2(high, current_price)

\* high = max(high, open_price, current_price)
ReconcileHigh(high, open_price, current_price) == Max3(high, open_price, current_price)

\* low = min(low, open_price, current_price)
ReconcileLow(low, open_price, current_price) == Min3(low, open_price, current_price)

\* volume = int(base_volume * (1 + abs(np.random.normal(0, 0.5))))
Volume(d) == (d.bv * (20 + Abs(d.zv))) \div 20

\* timedelta(days=days-i), for loop index i in range(days)
DayOffset(days, i) == days - i

LoopCountShort(days) == days - 1

\* range(days): the number of loop iterations
LoopCount(days) == days

\* StockPrice(...): the fields rounded to 2 decimals, vwap = (high + low + close) / 3
StockPrice(symbol, timestamp, cp, open_price, high, low, d) ==
    [symbol |-> symbol,
     timestamp |-> timestamp,
     open |-> Round2(open_price),
     high |-> Round2(high),
     low |-> Round2(low),
     close |-> Round2(cp),
     volume |-> Volume(d),
     vwap |-> Round2(RoundDiv(high + low + cp, 3))]

\* the OHLC of one day from its raw draws, reconciled
Bar(symbol, timestamp, cp, open_price, high0, low0, d) ==
    StockPrice(symbol, timestamp, cp, open_price,
               ReconcileHigh(high0, open_price, cp), ReconcileLow(low0, open_price, cp), d)

\* the loop body once the day's price cp is known
DayBar(symbol, days, t, i, cp, d) ==
    [current_price |-> cp,
     point |-> Bar(symbol, t - DayOffset(days, i) * DayLen, cp, OpenPrice(cp, d),
                   RawHigh(cp, d), RawLow(cp, d), d)]

\* one iteration of the loop: the StockPrice appended and the price carried on
DayStep(symbol, days, t, i, current_price, d) ==
    DayBar(symbol, days, t, i, NextPrice(current_price, d.shock), d)

RECURSIVE PriceLoop(_, _, _, _, _, _, _)
PriceLoopNext(symbol, days, t, draws, i, st, prices) ==
    PriceLoop(symbol, days, t, draws, i + 1, st.current_price, Append(prices, st.point))

\* for i in range(days): ... prices.append(...)
PriceLoop(symbol, days, t, draws, i, current_price, prices) ==
    IF i >= LoopCount(days)
    THEN prices
    ELSE PriceLoopNext(symbol, days, t, draws, i,
                       DayStep(symbol, days, t, i, current_price, draws[i + 1]), prices)

GenerateFrom(bp1, symbol, days, t, draws) ==
    [base_prices |-> bp1,
     prices |-> PriceLoop(symbol, days, t, draws, 0, bp1[symbol], <<>>)]

\* the whole call: the store after it and the list returned
GenerateRealisticPriceData(bp, symbol, days, t, reg, draws) ==
    GenerateFrom(Register(bp, symbol, reg), symbol, days, t, draws)

----------------------------------------------------------------------------
(* FinancialDataSimulator.generate_market_data *)

None == <<>>
Some(v) == <<v>>
\* Python truthiness of an Optional[float]
Truthy(o) == o # None /\ o[1] # 0

\* The draws of one snapshot, per symbol index i:
\*   u1     np.random.uniform(0.95, 1.05)     percent
\*   u2     np.random.uniform(0.98, 1.02)     percent
\*   vol    random.randint(500000, 5000000)
\*   shares random.randint(1000000, 10000000) millions
\*   pe     random.uniform(10, 35)            tenths
SnapshotSeeds == {1, 2}

SnapshotDraws(seed) ==
    [i \in 1..Len(Symbols) |->
        [u1 |-> <<95, 100, 105>>[((i + seed) % 3) + 1],
         u2 |-> <<98, 100, 102>>[(((i \div 3) + seed) % 3) + 1],
         vol |-> <<500000, 2750000, 5000000, 1234567>>[((i * seed) % 4) + 1],
         shares |-> <<1, 10>>[(i % 2) + 1],
         pe |-> 100 + ((7 * i + seed) % 26) * 10]]

\* current_price = self.base_prices[symbol] * np.random.uniform(0.95, 1.05)
CurrentPrice(reference, u1) == RoundDiv(reference * u1, 100)

PrevCloseFromReference(reference, current_price, u2) == reference

\* prev_close = current_price * np.random.uniform(0.98, 1.02)
PrevClose(reference, current_price, u2) == RoundDiv(current_price * u2, 100)

\* market_cap = current_price * random.randint(...) if symbol != 'SPY' else None
MarketCap(symbol, current_price, d) ==
    IF symbol # "SPY" THEN Some(current_price * d.shares) ELSE None

\* pe_ratio = random.uniform(10, 35) if market_cap else None
PeRatio(market_cap, d) == IF Truthy(market_cap) THEN Some(d.pe) ELSE None

\* MarketData(...): price, change and change_percent rounded to 2 decimals
MarketData(symbol, current_price, change, change_percent, market_cap, t, d) ==
    [symbol |-> symbol,
     current_price |-> Round2(current_price),
     change |-> Round2(change),
     change_percent |-> change_percent,
     volume |-> d.vol,
     market_cap |-> market_cap,
     pe_ratio |-> PeRatio(market_cap, d),
     timestamp |-> t]

\* change = current_price - prev_close; change_percent = (change / prev_close) * 100
QuoteFrom(symbol, current_price, prev_close, t, d) ==
    [stored |-> current_price,
     quote |-> MarketData(symbol, current_price, current_price - prev_close,
                          RoundDiv((current_price - prev_close) * 10000, prev_close),
                          MarketCap(symbol, current_price, d), t, d)]

QuoteAt(symbol, reference, current_price, t, d) ==
    QuoteFrom(symbol, current_price, PrevClose(reference, current_price, d.u2), t, d)

\* one iteration of the loop for `symbol`, whose stored price is `reference`:
\* the Quote appended and the price stored in base_prices
QuoteFor(symbol, reference, t, d) ==
    QuoteAt(symbol, reference, CurrentPrice(reference, d.u1), t, d)

RECURSIVE MarketLoop(_, _, _, _, _, _)
\* an iteration that appends no Quote for the index SPY
MarketLoopNextSkipIndex(bp, syms, t, draws, i, q, out) ==
    MarketLoop([bp EXCEPT ![syms[i]] = q.stored], syms, t, draws, i + 1,
               IF syms[i] = "SPY" THEN out ELSE Append(out, q.quote))

\* an iteration that leaves base_prices as it was
MarketLoopNextNoStore(bp, syms, t, draws, i, q, out) ==
    MarketLoop(bp, syms, t, draws, i + 1, Append(out, q.quote))

\* market_data.append(...); self.base_prices[symbol] = current_price
MarketLoopNext(bp, syms, t, draws, i, q, out) ==
    MarketLoop([bp EXCEPT ![syms[i]] = q.stored], syms, t, draws, i + 1, Append(out, q.quote))

\* for symbol in self.symbols: ... self.base_prices[symbol] = current_price
MarketLoop(bp, syms, t, draws, i, out) ==
    IF i > Len(syms)
    THEN [base_prices |-> bp, market_data |-> out]
    ELSE MarketLoopNext(bp, syms, t, draws, i, QuoteFor(syms[i], bp[syms[i]], t, draws[i]), out)

GenerateMarketData(bp, syms, t, draws) == MarketLoop(bp, syms, t, draws, 1, <<>>)

----------------------------------------------------------------------------
(* The ranking of get_market_summary *)

RECURSIVE InsertDesc(_, _, _)
\* x goes after every element whose key is at least its own (a stable sort)
InsertDesc(s, x, f) ==
    IF s = <<>> THEN <<x>>
    ELSE IF Head(s)[f] >= x[f] THEN <<Head(s)>> \o InsertDesc(Tail(s), x, f)
    ELSE <<x>> \o s

RECURSIVE InsertAsc(_, _, _)
InsertAsc(s, x, f) ==
    IF s = <<>> THEN <<x>>
    ELSE IF Head(s)[f] <= x[f] THEN <<Head(s)>> \o InsertAsc(Tail(s), x, f)
    ELSE <<x>> \o s

RECURSIVE SortedAsc(_, _)
SortedAsc(s, f) ==
    IF s = <<>> THEN <<>>
    ELSE InsertAsc(SortedAsc(SubSeq(s, 1, Len(s) - 1), f), s[Len(s)], f)

RECURSIVE SortedDesc(_, _)
\* sorted(s, key=lambda x: x.f, reverse=True)
SortedDesc(s, f) ==
    IF s = <<>> THEN <<>>
    ELSE InsertDesc(SortedDesc(SubSeq(s, 1, Len(s) - 1), f), s[Len(s)], f)

\* s[:n]
Prefix(s, n) == SubSeq(s, 1, Min2(n, Len(s)))

\* s[-n:]
Suffix(s, n) == SubSeq(s, Len(s) - Min2(n, Len(s)) + 1, Len(s))

RECURSIVE SumVolume(_)
SumVolume(s) == IF s = <<>> THEN 0 ELSE Head(s).volume + SumVolume(Tail(s))

RECURSIVE SumMarketCapDefaulted(_)
\* a sum that counts an absent market cap as the heatmap's default size
SumMarketCapDefaulted(s) ==
    IF s = <<>> THEN 0
    ELSE (IF Truthy(Head(s).market_cap) THEN Head(s).market_cap[1] ELSE DefaultCap)
         + SumMarketCapDefaulted(Tail(s))

RECURSIVE SumMarketCap(_)
\* sum(md.market_cap for md in market_data if md.market_cap)
SumMarketCap(s) ==
    IF s = <<>> THEN 0
    ELSE (IF Truthy(Head(s).market_cap) THEN Head(s).market_cap[1] ELSE 0)
         + SumMarketCap(Tail(s))

TopGainers(sorted_by_change) == Prefix(sorted_by_change, TopN)

\* the head of the sorted batch taken for the losers
TopLosersHead(sorted_by_change) == Prefix(sorted_by_change, TopN)

\* top_losers=sorted_by_change[-5:]
TopLosers(sorted_by_change) == Suffix(sorted_by_change, TopN)

\* the whole sorted batch taken as the most active
MostActiveAll(sorted_by_volume) == sorted_by_volume

\* most_active=sorted_by_volume[:5]
MostActive(sorted_by_volume) == Prefix(sorted_by_volume, TopN)

MarketSummary(md, sorted_by_change, sorted_by_volume, t) ==
    [kind |-> "market_summary",
     total_symbols |-> Len(md),
     total_volume |-> SumVolume(md),
     total_market_cap |-> SumMarketCap(md),
     top_gainers |-> TopGainers(sorted_by_change),
     top_losers |-> TopLosers(sorted_by_change),
     most_active |-> MostActive(sorted_by_volume),
     timestamp |-> t]

\* the MarketSummary built from a Quote batch
Summarize(md, t) ==
    MarketSummary(md, SortedDesc(md, "change_percent"), SortedDesc(md, "volume"), t)

----------------------------------------------------------------------------
(* cache = TTLCache(maxsize, ttl) *)

Keys(c) == {c[i].key : i \in 1..Len(c)}

Entry(c, k) == c[CHOOSE i \in 1..Len(c) : c[i].key = k]

Without(c, k) == SelectSeq(c, LAMBDA e : e.key # k)

\* a lookup that still sees an entry at the instant it expires
ContainsAtExpiry(c, k, t) == \E i \in 1..Len(c) : c[i].key = k /\ t <= c[i].expires

ContainsInverted(c, k, t) == \E i \in 1..Len(c) : c[i].key = k /\ ~(t < c[i].expires)

\* cache_key in cache: present and not yet expired
Contains(c, k, t) == \E i \in 1..Len(c) : c[i].key = k /\ t < c[i].expires

\* a read that leaves the order of the entries as it was
TouchInPlace(c, k) == c

\* cache[cache_key] on a live entry: the read makes it the most recently used
Touch(c, k) == Without(c, k) \o <<Entry(c, k)>>

\* expire(): every entry whose time is up leaves
Expire(c, t) == SelectSeq(c, LAMBDA e : t < e.expires)

RECURSIVE Evict(_)
\* while currsize + 1 > maxsize: popitem(), least recently used first
Evict(c) == IF Len(c) + 1 > maxsize THEN Evict(Tail(c)) ELSE c

\* cache[cache_key] = value
SetItem(c, k, v, t) ==
    LET c1 == Expire(c, t)
        c2 == IF k \in Keys(c1) THEN c1 ELSE Evict(c1)
    IN  Without(c2, k) \o <<[key |-> k, value |-> v, expires |-> t + ttl]>>

----------------------------------------------------------------------------
(* The API handlers *)

Req(op, symbol, days) == [op |-> op, symbol |-> symbol, days |-> days]

PriceOps == {"price_history", "candlestick", "volume"}
SnapshotOps == {"market_summary", "market_heatmap"}
CachedOps == PriceOps \cup SnapshotOps \cup {"correlation_matrix"}

\* keys built from the upper-cased symbol
CacheKeyUpper(req) ==
    IF req.op \in PriceOps THEN <<req.op, Upper(req.symbol), req.days>> ELSE <<req.op, "", 0>>

\* the f-string keys; the symbol enters as received
CacheKey(req) ==
    IF req.op \in PriceOps THEN <<req.op, req.symbol, req.days>> ELSE <<req.op, "", 0>>

\* a validation with le=365 alone
ValidDaysNoFloor(req) == req.op \in PriceOps => req.days <= DaysLe

\* Query(ge=1, le=365) on the three per-symbol handlers
ValidDays(req) == req.op \in PriceOps => (req.days >= DaysGe /\ req.days <= DaysLe)

Column(points, f) == [i \in 1..Len(points) |-> points[i][f]]

\* the value the price handlers build from the generated list
PriceResult(req, prices) ==
    IF req.op = "price_history"
    THEN [kind |-> "price_history", points |-> prices]
    ELSE IF req.op = "candlestick"
    THEN [kind |-> "candlestick", name |-> Upper(req.symbol),
          x |-> Column(prices, "timestamp"), open |-> Column(prices, "open"),
          high |-> Column(prices, "high"), low |-> Column(prices, "low"),
          close |-> Column(prices, "close")]
    ELSE [kind |-> "volume", name |-> Upper(req.symbol),
          x |-> Column(prices, "timestamp"), y |-> Column(prices, "volume"),
          colors |-> [i \in 1..Len(prices) |->
                         IF prices[i].close >= prices[i].open THEN "#00D4AA" ELSE "#FF6B6B"]]

\* the heatmap built from a Quote batch
HeatmapResult(md) ==
    [kind |-> "market_heatmap",
     x |-> Column(md, "symbol"),
     color |-> Column(md, "change_percent"),
     size |-> [i \in 1..Len(md) |->
                  IF Truthy(md[i].market_cap) THEN md[i].market_cap[1] ELSE DefaultCap]]

major_symbols == <<"JPM", "GS", "AAPL", "MSFT", "SPY">>

\* the draws of the k-th series of a correlation request
CorrStream(choice, k) ==
    IF choice = 2 /\ k = 1 THEN Streams[2]
    ELSE IF (k + choice) % 2 = 0 THEN Streams[1] ELSE Streams[3]

RECURSIVE CorrLoop(_, _, _, _, _)
CorrLoopNext(t, rnd, k, g, price_matrix) ==
    CorrLoop(g.base_prices, t, rnd, k + 1, Append(price_matrix, Column(g.prices, "close")))

\* for symbol in major_symbols: the closes of a 30-day history each
CorrLoop(bp, t, rnd, k, price_matrix) ==
    IF k > Len(major_symbols)
    THEN [base_prices |-> bp, price_matrix |-> price_matrix]
    ELSE CorrLoopNext(t, rnd, k,
                      GenerateRealisticPriceData(bp, major_symbols[k], CorrelationDays, t,
                                                 rnd.reg, CorrStream(rnd.choice, k)),
                      price_matrix)

ZeroVariance(series) == \A i \in 1..Len(series) : series[i] = series[1]

\* np.corrcoef, entry by entry: nan where a series has no variance, else a number
\* (1 on the diagonal); the numbers themselves are not modelled
Corrcoef(price_matrix) ==
    [i \in 1..Len(price_matrix) |->
        [j \in 1..Len(price_matrix) |->
            IF ZeroVariance(price_matrix[i]) \/ ZeroVariance(price_matrix[j]) THEN "nan"
            ELSE IF i = j THEN "1" ELSE "r"]]

NoResponse ==
    [op |-> "none", symbol |-> "", key |-> <<"none", "", 0>>, status |-> 0, hit |-> FALSE,
     computed |-> FALSE, arrived |-> 0, value |-> [kind |-> "none"]]

Reply(req, status, hit, computed, value) ==
    [op |-> req.op, symbol |-> req.symbol, key |-> CacheKey(req), status |-> status, hit |-> hit,
     computed |-> computed, arrived |-> 0, value |-> value]

PriceProduct(req, g, md) ==
    [base_prices |-> g.base_prices, market_data |-> md, value |-> PriceResult(req, g.prices)]

SnapshotProduct(req, g, t) ==
    [base_prices |-> g.base_prices, market_data |-> g.market_data,
     value |-> IF req.op = "market_summary"
               THEN Summarize(g.market_data, t)
               ELSE HeatmapResult(g.market_data)]

CorrelationProduct(g, md) ==
    [base_prices |-> g.base_prices, market_data |-> md,
     value |-> [kind |-> "correlation_matrix", x |-> major_symbols,
                z |-> Corrcoef(g.price_matrix)]]

\* what a handler does on a miss: the store, the batch and the value it builds
Produce(req, rnd, bp, syms, t, md) ==
    IF req.op \in PriceOps
    THEN PriceProduct(req, GenerateRealisticPriceData(bp, Upper(req.symbol), req.days, t,
                                                      rnd.reg, rnd.draws), md)
    ELSE IF req.op \in SnapshotOps
    THEN SnapshotProduct(req, GenerateMarketData(bp, syms, t, SnapshotDraws(rnd.seed)), t)
    ELSE CorrelationProduct(CorrLoop(bp, t, rnd, 1, <<>>), md)

StoreProduct(req, p, c, t) ==
    [base_prices |-> p.base_prices,
     cache |-> SetItem(c, CacheKey(req), p.value, t),
     market_data |-> p.market_data,
     response |-> Reply(req, 200, FALSE, TRUE, p.value)]

\* the try block of a cached handler: produce, store under the key, return
Compute(req, rnd, bp, syms, c, t, md) ==
    StoreProduct(req, Produce(req, rnd, bp, syms, t, md), c, t)

\* a whole handler run: [base_prices, cache, market_data, response]
Serve(req, rnd, bp, syms, c, t, md) ==
    IF req.op = "symbols"
    THEN [base_prices |-> bp, cache |-> c, market_data |-> md,
          response |-> Reply(req, 200, FALSE, FALSE,
                             [kind |-> "symbols", symbols |-> syms, count |-> Len(syms)])]
    ELSE IF req.op = "metrics"
    THEN [base_prices |-> bp, cache |-> Expire(c, t), market_data |-> md,
          response |-> Reply(req, 200, FALSE, FALSE,
                             [kind |-> "metrics", cache_size |-> Len(Expire(c, t)),
                              cache_maxsize |-> maxsize, cache_ttl |-> ttl,
                              active_symbols |-> Len(syms)])]
    ELSE IF ~ValidDays(req)
    THEN [base_prices |-> bp, cache |-> c, market_data |-> md,
          response |-> Reply(req, 422, FALSE, FALSE, [kind |-> "validation_error"])]
    ELSE IF Contains(c, CacheKey(req), t)
    THEN [base_prices |-> bp, cache |-> Touch(c, CacheKey(req)), market_data |-> md,
          response |-> Reply(req, 200, TRUE, FALSE, Entry(c, CacheKey(req)).value)]
    ELSE Compute(req, rnd, bp, syms, c, t, md)

\* the handler run n that last stored or read each key of the cache c
Recency(u, c, r, n) ==
    [k \in Keys(c) |-> IF k = r.key /\ (r.hit \/ r.computed) THEN n ELSE u[k]]

\* the record of the last value stored under each key: the value, when it was stored,
\* by which handler run, and when the value it replaced had been stored (-1 if none)
Remember(st, r, t, n) ==
    IF r.computed
    THEN [k \in DOMAIN st \cup {r.key} |->
             IF k = r.key
             THEN [value |-> r.value, at |-> t, run |-> n,
                   before |-> IF k \in DOMAIN st THEN st[k].at ELSE -1]
             ELSE st[k]]
    ELSE st

----------------------------------------------------------------------------
(* The service: requests, the event loop, the clock *)

\* seeds of the draws made by __init__
InitSeeds == {0, 1}

\* the state after the module is loaded
Init ==
    /\ symbols = Symbols
    /\ \E seed \in InitSeeds : base_prices = InitBasePrices(seed)
    /\ cache = <<>>
    /\ now = 0
    /\ pending = <<>>
    /\ response = NoResponse
    /\ market_data = <<>>
    /\ served = 0
    /\ stored = [k \in {} |-> 0]
    /\ used = [k \in {} |-> 0]

NoDraws == [reg |-> 50000, draws |-> <<>>, seed |-> 1, choice |-> 1]

\* the random draws a handler run may make
Randomness(req, bp) ==
    IF req.op \in PriceOps
    THEN {[NoDraws EXCEPT !.reg = r, !.draws = Streams[1]] :
             r \in (IF Upper(req.symbol) \in DOMAIN bp THEN {50000} ELSE BasePriceDraws)}
    ELSE IF req.op = "market_heatmap"
    THEN {[NoDraws EXCEPT !.seed = 2]}
    ELSE {NoDraws}

\* the requests clients send
Requests ==
    { Req("market_summary", "", 0), Req("market_heatmap", "", 0),
      Req("price_history", "JPM", 1), Req("price_history", "jpm", 1),
      Req("metrics", "", 0) }

\* the state a handler run r leaves, for the request accepted at run number `arrived`
Finish(r, arrived) ==
    /\ base_prices' = r.base_prices
    /\ cache' = r.cache
    /\ market_data' = r.market_data
    /\ response' = [r.response EXCEPT !.arrived = arrived]
    /\ stored' = Remember(stored, r.response, now, served + 1)
    /\ used' = Recency(used, r.cache, r.response, served + 1)
    /\ served' = served + 1

\* a request is handled: its handler runs from start to end
Request(req, rnd) ==
    /\ served < MaxServed
    /\ Finish(Serve(req, rnd, base_prices, symbols, cache, now, market_data), served)
    /\ UNCHANGED <<symbols, now, pending>>

\* time passes
Tick ==
    /\ now < MaxTime
    /\ now' = now + 1
    /\ UNCHANGED <<symbols, base_prices, cache, pending, response, market_data, served, stored, used>>

Next ==
    \/ \E req \in Requests : \E rnd \in Randomness(req, base_prices) : Request(req, rnd)
    \/ Tick

Spec == Init /\ [][Next]_vars

----------------------------------------------------------------------------
(* Concurrent requests: one task per request on a single event loop *)

\* a handler that awaited between its lookup and its store
SuspendsAlways(op) == TRUE

\* whether the handler of `op` has a suspension point (an await) between its cache
\* lookup and its store: none of the handlers awaits anything
Suspends(op) == FALSE

ConcRequests ==
    { Req("market_summary", "", 0), Req("price_history", "JPM", 1),
      Req("price_history", "jpm", 1) }

Task(req, arrived) == [req |-> req, arrived |-> arrived, pc |-> "start"]

DropAt(s, i) == SubSeq(s, 1, i - 1) \o SubSeq(s, i + 1, Len(s))

\* a request arrives and its task waits for the event loop
Accept(req) ==
    /\ Len(pending) < MaxPending
    /\ served + Len(pending) < MaxServed
    /\ pending' = Append(pending, Task(req, served))
    /\ UNCHANGED <<symbols, base_prices, cache, now, response, market_data, served, stored, used>>

\* the task would stop after observing a miss and be resumed later
ParksOnMiss(task) ==
    /\ task.pc = "start"
    /\ Suspends(task.req.op)
    /\ task.req.op \in CachedOps
    /\ ValidDays(task.req)
    /\ ~Contains(cache, CacheKey(task.req), now)

\* what the task does when the loop runs it to its end: a fresh task runs the whole
\* handler, a task resumed after its miss goes on to compute and store
RunToEnd(task, rnd) ==
    IF task.pc = "miss"
    THEN Compute(task.req, rnd, base_prices, symbols, cache, now, market_data)
    ELSE Serve(task.req, rnd, base_prices, symbols, cache, now, market_data)

\* the event loop runs task i until it suspends or returns
RunTask(i, rnd) ==
    /\ i \in 1..Len(pending)
    /\ IF ParksOnMiss(pending[i])
       THEN /\ pending' = [pending EXCEPT ![i].pc = "miss"]
            /\ UNCHANGED <<base_prices, cache, response, market_data, served, stored, used>>
       ELSE /\ Finish(RunToEnd(pending[i], rnd), pending[i].arrived)
            /\ pending' = DropAt(pending, i)
    /\ UNCHANGED <<symbols, now>>

NextConc ==
    \/ \E req \in ConcRequests : Accept(req)
    \/ \E i \in 1..Len(pending) : \E rnd \in Randomness(pending[i].req, base_prices) : RunTask(i, rnd)
    \/ Tick

SpecConc == Init /\ [][NextConc]_vars

----------------------------------------------------------------------------
(* The per-symbol handlers, the symbol list and the correlation handler *)

\* a request is handled, one of a short burst in which no time passes
Call(req, rnd) ==
    /\ served < MaxCalls
    /\ Finish(Serve(req, rnd, base_prices, symbols, cache, now, market_data), served)
    /\ UNCHANGED <<symbols, now, pending>>

\* requests for a symbol that is not tracked, in both letter cases, with the symbol
\* list and a snapshot consumer
ChartRequests ==
    { Req("price_history", "ZZZ", 1), Req("price_history", "zzz", 1),
      Req("candlestick", "ZZZ", 1), Req("candlestick", "zzz", 1),
      Req("volume", "ZZZ", 1), Req("volume", "zzz", 1),
      Req("symbols", "", 0), Req("market_heatmap", "", 0) }

NextCharts ==
    \E req \in ChartRequests : \E rnd \in Randomness(req, base_prices) : Call(req, rnd)

SpecCharts == Init /\ [][NextCharts]_vars

\* the draws of a correlation request: ordinary series, or a first series whose
\* closes never move
CorrRandomness(req, bp) ==
    IF req.op = "correlation_matrix"
    THEN {[NoDraws EXCEPT !.choice = ch] : ch \in {1, 2}}
    ELSE Randomness(req, bp)

CorrRequests ==
    { Req("correlation_matrix", "", 0), Req("price_history", "JPM", 1),
      Req("candlestick", "ZZZ", 1), Req("volume", "zzz", 1),
      Req("market_heatmap", "", 0) }

NextCorr ==
    \E req \in CorrRequests : \E rnd \in CorrRandomness(req, base_prices) : Call(req, rnd)

SpecCorr == Init /\ [][NextCorr]_vars

----------------------------------------------------------------------------
(* The simulator called directly *)

Called(op, symbol, days, status, value) ==
    [op |-> op, symbol |-> symbol, key |-> <<op, symbol, days>>, status |-> status, hit |-> FALSE,
     computed |-> TRUE, arrived |-> served, value |-> value]

StoreAfter(bp, resp) ==
    /\ base_prices' = bp
    /\ response' = resp
    /\ served' = served + 1
    /\ UNCHANGED <<symbols, cache, now, pending, stored, used>>

\* data_simulator.generate_market_data()
CallMarketData(seed) ==
    /\ served < MaxServed
    /\ \E g \in {GenerateMarketData(base_prices, symbols, now, SnapshotDraws(seed))} :
          /\ market_data' = g.market_data
          /\ StoreAfter(g.base_prices,
                        Called("generate_market_data", "", 0, 200, [kind |-> "quotes"]))

\* data_simulator.generate_realistic_price_data(symbol, days), the list dropped
CallPriceData(symbol, days, reg, draws) ==
    /\ served < MaxServed
    /\ UNCHANGED market_data
    /\ StoreAfter(GenerateRealisticPriceData(base_prices, symbol, days, now, reg, draws).base_prices,
                  Called("generate_realistic_price_data", symbol, days, 200, [kind |-> "prices"]))

\* the loop of get_correlation_matrix over major_symbols
CallCorrelation(choice) ==
    /\ served < MaxServed
    /\ UNCHANGED market_data
    /\ StoreAfter(CorrLoop(base_prices, now, [NoDraws EXCEPT !.choice = choice], 1, <<>>).base_prices,
                  Called("correlation", "", CorrelationDays, 200, [kind |-> "closes"]))

NextStore ==
    \/ \E seed \in SnapshotSeeds : CallMarketData(seed)
    \/ \E symbol \in {"JPM", "ZZZ"} : \E days \in 1..MaxDays : \E reg \in BasePriceDraws :
          \E k \in {1, 3} : CallPriceData(symbol, days, reg, Streams[k])
    \/ \E choice \in {1, 2} : CallCorrelation(choice)

SpecStore == Init /\ [][NextStore]_vars

----------------------------------------------------------------------------
(* The price-path generator on free draws *)

\* every stream of draws for a call of `days` days
DrawSeqs(days) == [1..days -> DrawSet]

\* the service is fresh: nothing has been called yet
Fresh == served = 0

\* generate_realistic_price_data(symbol, days) called once, its list kept
GenerateOnce(symbol, days, reg, draws) ==
    /\ Fresh
    /\ \E g \in {GenerateRealisticPriceData(base_prices, symbol, days, now, reg, draws)} :
          StoreAfter(g.base_prices,
                     Called("generate", symbol, days, 200,
                            [kind |-> "price_list", points |-> g.prices]))
    /\ UNCHANGED market_data

\* one price-history request on a fresh service
HistoryOnce(req, reg, draws) ==
    /\ Fresh
    /\ Finish(Serve(req, [NoDraws EXCEPT !.reg = reg, !.draws = draws],
                    base_prices, symbols, cache, now, market_data), served)
    /\ UNCHANGED <<symbols, now, pending>>

NextGen ==
    \/ /\ Fresh
       /\ \E symbol \in {"JPM", "ZZZ"} : \E days \in 0..MaxDays :
             \E reg \in (IF symbol \in DOMAIN base_prices THEN {50000} ELSE BasePriceDraws) :
                \E draws \in DrawSeqs(days) : GenerateOnce(symbol, days, reg, draws)
    \/ /\ Fresh
       /\ \E days \in 0..MaxDays : \E draws \in DrawSeqs(days) :
             HistoryOnce(Req("price_history", "jpm", days), 50000, draws)
    \/ /\ Fresh
       /\ HistoryOnce(Req("price_history", "JPM", DaysLe + 1), 50000, <<>>)

SpecGen == Init /\ [][NextGen]_vars

----------------------------------------------------------------------------
(* The ranking on free batches *)

\* the fields of a Quote the ranking reads: change_percent, volume, market_cap
QuoteDraws ==
    { [change_percent |-> -150, volume |-> 500000, market_cap |-> None],
      [change_percent |-> 0, volume |-> 5000000, market_cap |-> Some(50000)],
      [change_percent |-> 204, volume |-> 500000, market_cap |-> Some(525000)],
      [change_percent |-> 204, volume |-> 2750000, market_cap |-> None] }

BatchQuote(i, q) ==
    [symbol |-> Symbols[i], current_price |-> 10000, change |-> 0,
     change_percent |-> q.change_percent, volume |-> q.volume,
     market_cap |-> q.market_cap, pe_ratio |-> None, timestamp |-> 0]

\* the batch is either free, of up to MaxBatch quotes, or a snapshot of the whole
\* universe as generate_market_data returns it
InitRank ==
    /\ symbols = Symbols
    /\ cache = <<>>
    /\ now = 0
    /\ pending = <<>>
    /\ response = NoResponse
    /\ served = 0
    /\ stored = [k \in {} |-> 0]
    /\ used = [k \in {} |-> 0]
    /\ \/ /\ base_prices = InitBasePrices(0)
          /\ \E n \in 0..MaxBatch : \E f \in [1..n -> QuoteDraws] :
                market_data = [i \in 1..n |-> BatchQuote(i, f[i])]
       \/ \E seed \in SnapshotSeeds :
             \E g \in {GenerateMarketData(InitBasePrices(0), Symbols, 0, SnapshotDraws(seed))} :
                /\ base_prices = g.base_prices
                /\ market_data = g.market_data

\* the ranking of get_market_summary applied to the batch
RankBatch ==
    /\ served = 0
    /\ response' = Reply(Req("market_summary", "", 0), 200, FALSE, TRUE,
                         Summarize(market_data, now))
    /\ served' = 1
    /\ UNCHANGED <<symbols, base_prices, cache, now, pending, market_data, stored, used>>

NextRank == RankBatch

SpecRank == InitRank /\ [][NextRank]_vars

----------------------------------------------------------------------------
(* Properties of the price-path generator, checked under SpecGen *)

\* the PricePoints of the last call, when it returned a list of them
Points ==
    IF response.value.kind \in {"price_list", "price_history"}
    THEN response.value.points
    ELSE <<>>

\* C1: every PricePoint the generator emits has, after rounding to 2 decimals,
\* low <= min(open, close), high >= max(open, close) and low <= high.
C1_OhlcConsistent ==
    \A i \in 1..Len(Points) :
        /\ Points[i].low <= Min2(Points[i].open, Points[i].close)
        /\ Points[i].high >= Max2(Points[i].open, Points[i].close)
        /\ Points[i].low <= Points[i].high

\* a point whose high is its open, above its close, and whose low is its close:
\* the reconciliation is what made it consistent
C1_Witness ==
    \E i \in 1..Len(Points) :
        /\ Points[i].high = Points[i].open
        /\ Points[i].open > Points[i].close
        /\ Points[i].low = Points[i].close

C5_ExactlyDaysPoints ==
    /\ (response.op = "generate" /\ response.key[3] \in DaysGe..DaysLe)
          => /\ Len(Points) = response.key[3]
             /\ \A i \in 1..Len(Points) : Points[i].symbol = response.key[2]
    /\ (response.op = "price_history" /\ response.status = 200)
          => /\ Len(Points) = response.key[3]
             /\ \A i \in 1..Len(Points) : Points[i].symbol = Upper(response.key[2])

\* the longest call, for a symbol that was not tracked, returned its points
C5_Witness ==
    /\ response.op = "generate"
    /\ response.key = <<"generate", "ZZZ", MaxDays>>
    /\ Len(Points) = MaxDays
    /\ Points[MaxDays].symbol = "ZZZ"

\* C6 (as stated): the points are ordered oldest first with strictly increasing
\* timestamps one day apart, and the last point's timestamp is the time of the call.
C6_EndsNow ==
    (response.op = "generate" /\ Len(Points) > 0)
        => /\ \A i \in 1..(Len(Points) - 1) :
                  Points[i + 1].timestamp = Points[i].timestamp + DayLen
           /\ Points[Len(Points)].timestamp = now

----------------------------------------------------------------------------
(* Properties of the ranking, checked under SpecRank *)

\* the MarketSummary of the last call, when it returned one
Summary == response.value

Summarized == response.value.kind = "market_summary"

\* s is ordered from highest to lowest on field f
Descending(s, f) == \A i \in 1..(Len(s) - 1) : s[i][f] >= s[i + 1][f]

\* s is ordered from lowest to highest on field f
Ascending(s, f) == \A i \in 1..(Len(s) - 1) : s[i][f] <= s[i + 1][f]

\* the quotes of the batch that are not in s
Outside(s) == {q \in SeqToSet(market_data) : q \notin SeqToSet(s)}

\* C9: top_gainers is sorted by change_percent descending and no quote outside it has
\* a greater change_percent than a quote inside it; most_active is sorted by volume
\* descending and no quote outside it has a greater volume than a quote inside it.
C9_TopSortedDescending ==
    Summarized =>
        /\ SeqToSet(Summary.top_gainers) \subseteq SeqToSet(market_data)
        /\ Descending(Summary.top_gainers, "change_percent")
        /\ \A q \in Outside(Summary.top_gainers) : \A g \in SeqToSet(Summary.top_gainers) :
               q.change_percent <= g.change_percent
        /\ SeqToSet(Summary.most_active) \subseteq SeqToSet(market_data)
        /\ Descending(Summary.most_active, "volume")
        /\ \A q \in Outside(Summary.most_active) : \A a \in SeqToSet(Summary.most_active) :
               q.volume <= a.volume

\* a batch larger than the lists, with distinct values inside the lists and quotes
\* left outside both
C9_Witness ==
    /\ Summarized
    /\ Len(market_data) > TopN
    /\ Outside(Summary.top_gainers) # {}
    /\ Outside(Summary.most_active) # {}
    /\ Summary.top_gainers[1].change_percent > Summary.top_gainers[TopN].change_percent
    /\ Summary.most_active[1].volume > Summary.most_active[TopN].volume

\* C10 (as amended): top_losers holds the quotes with the lowest change_percent (no
\* quote outside it has a lower change_percent than a quote inside it), listed as the
\* tail of the descending sort: from highest to lowest, its last element being the
\* quote with the lowest change_percent of the batch.
C10_LosersTailOfDescending ==
    Summarized =>
        /\ SeqToSet(Summary.top_losers) \subseteq SeqToSet(market_data)
        /\ Descending(Summary.top_losers, "change_percent")
        /\ \A q \in SeqToSet(market_data) : Summary.top_losers # <<>> =>
               Summary.top_losers[Len(Summary.top_losers)].change_percent <= q.change_percent
        /\ \A q \in Outside(Summary.top_losers) : \A l \in SeqToSet(Summary.top_losers) :
               q.change_percent >= l.change_percent

\* a batch larger than the list whose losers differ: the first of top_losers is above
\* the last
C10_Witness ==
    /\ Summarized
    /\ Len(market_data) > TopN
    /\ Outside(Summary.top_losers) # {}
    /\ Summary.top_losers[1].change_percent > Summary.top_losers[TopN].change_percent

\* C10 (as stated): top_losers is sorted by change_percent ascending, its first
\* element being the quote with the lowest change_percent of the batch, and no quote
\* outside it has a lower change_percent than a quote inside it.
C10_LosersAscending ==
    Summarized =>
        /\ Ascending(Summary.top_losers, "change_percent")
        /\ \A q \in SeqToSet(market_data) : Summary.top_losers # <<>> =>
               Summary.top_losers[1].change_percent <= q.change_percent
        /\ \A q \in Outside(Summary.top_losers) : \A l \in SeqToSet(Summary.top_losers) :
               q.change_percent >= l.change_percent

\* C11: for a Quote batch of any size n >= 0, each of top_gainers, top_losers and
\* most_active has length exactly min(5, n) and holds only quotes of the batch; for
\* the snapshot of the whole universe each list has length 5.
C11_ListLengths ==
    Summarized =>
        /\ Len(Summary.top_gainers) = Min2(TopN, Len(market_data))
        /\ Len(Summary.top_losers) = Min2(TopN, Len(market_data))
        /\ Len(Summary.most_active) = Min2(TopN, Len(market_data))
        /\ SeqToSet(Summary.top_gainers) \subseteq SeqToSet(market_data)
        /\ SeqToSet(Summary.top_losers) \subseteq SeqToSet(market_data)
        /\ SeqToSet(Summary.most_active) \subseteq SeqToSet(market_data)
        /\ Len(market_data) = Len(Symbols) =>
              /\ Len(Summary.top_gainers) = TopN
              /\ Len(Summary.top_losers) = TopN
              /\ Len(Summary.most_active) = TopN

\* a batch smaller than the lists, not empty: every list is the whole batch
C11_Witness ==
    /\ Summarized
    /\ Len(market_data) \in 1..(TopN - 1)
    /\ Len(Summary.top_gainers) = Len(market_data)
    /\ Len(Summary.top_losers) = Len(market_data)
    /\ Len(Summary.most_active) = Len(market_data)

\* the positions of the batch whose quote carries a market cap
Capped == {i \in 1..Len(market_data) : market_data[i].market_cap # None}

RECURSIVE CapsOver(_)
\* the sum of the market caps at the positions I
CapsOver(I) ==
    IF I = {} THEN 0
    ELSE LET i == CHOOSE j \in I : TRUE
         IN  market_data[i].market_cap[1] + CapsOver(I \ {i})

RECURSIVE VolumesOver(_)
\* the sum of the volumes at the positions I
VolumesOver(I) ==
    IF I = {} THEN 0
    ELSE LET i == CHOOSE j \in I : TRUE
         IN  market_data[i].volume + VolumesOver(I \ {i})

\* C12: total_market_cap is the sum of market_cap over exactly the quotes of the batch
\* that carry one (SPY never receives a market cap or P/E and contributes nothing),
\* and total_volume is the sum of volume over all quotes of the batch.
C12_TotalsOverBatch ==
    /\ \A i \in 1..Len(market_data) :
          market_data[i].symbol = "SPY" =>
              market_data[i].market_cap = None /\ market_data[i].pe_ratio = None
    /\ Summarized =>
          /\ Summary.total_market_cap = CapsOver(Capped)
          /\ Summary.total_volume = VolumesOver(1..Len(market_data))

\* the summary of a snapshot of the whole universe: SPY is in it without a cap, the
\* others carry one
C12_Witness ==
    /\ Summarized
    /\ Len(market_data) = Len(Symbols)
    /\ \E i \in 1..Len(market_data) :
          market_data[i].symbol = "SPY" /\ market_data[i].market_cap = None
    /\ Capped # {}
    /\ Summary.total_market_cap > 0

----------------------------------------------------------------------------
(* Properties of the reference-price store, checked under SpecStore *)

\* the raw changes (in mills) that round to the change of quote q
RawChanges(q) == (q.change * 10 - 5)..(q.change * 10 + 5)

\* pc is a possible synthetic previous close of the current price cp:
\* cp * uniform(0.98, 1.02)
InCloseBand(pc, cp) == 98 * cp - 50 <= 100 * pc /\ 100 * pc <= 102 * cp + 50

\* C7 (as amended): for every Quote of a snapshot, change = current_price - prev_close
\* and change_percent = change / prev_close * 100 (each rounded to 2 decimals), where
\* prev_close is a synthetic previous close within 2% of the new current price; the
\* current price is the price the snapshot stores as the symbol's ReferencePrice.
C7_ChangeFromSyntheticClose ==
    \A i \in 1..Len(market_data) :
        /\ market_data[i].current_price = Round2(base_prices[market_data[i].symbol])
        /\ \E c \in RawChanges(market_data[i]) :
              /\ market_data[i].change = Round2(c)
              /\ InCloseBand(base_prices[market_data[i].symbol] - c,
                             base_prices[market_data[i].symbol])
              /\ market_data[i].change_percent =
                    RoundDiv(c * 10000, base_prices[market_data[i].symbol] - c)

\* a snapshot has just been produced, with quotes that rose and quotes that fell
C7_Witness ==
    /\ response.op = "generate_market_data"
    /\ Len(market_data) = Len(symbols)
    /\ \E i \in 1..Len(market_data) : market_data[i].change > 0
    /\ \E i \in 1..Len(market_data) : market_data[i].change < 0

\* C7 (as stated): for every Quote of a snapshot, change = current_price - r and
\* change_percent = change / r * 100, r being the ReferencePrice stored for the symbol
\* before the snapshot call.
C7_ChangeFromStoredReference ==
    [][(response'.op = "generate_market_data" /\ served' = served + 1) =>
          \A i \in 1..Len(market_data') :
              /\ market_data'[i].change =
                    Round2(base_prices'[market_data'[i].symbol]
                           - base_prices[market_data'[i].symbol])
              /\ market_data'[i].change_percent =
                    RoundDiv((base_prices'[market_data'[i].symbol]
                              - base_prices[market_data'[i].symbol]) * 10000,
                             base_prices[market_data'[i].symbol])]_vars

\* C8: in every reachable state, after any sequence of initialisation, price-history
\* calls (with lazy registration of unknown symbols), correlation calls and snapshot
\* calls, every ReferencePrice in the store is strictly greater than zero.
C8_ReferencePricesPositive ==
    \A s \in DOMAIN base_prices : base_prices[s] > 0

\* after a correlation call, with an unknown symbol registered and a snapshot taken
\* that pushed a price below the lowest initial draw
C8_Witness ==
    /\ response.op = "correlation"
    /\ "ZZZ" \in DOMAIN base_prices
    /\ market_data # <<>>
    /\ \E s \in DOMAIN base_prices : base_prices[s] < 50000

\* C13: every snapshot returns exactly one Quote per tracked symbol, in the order of
\* the tracked-symbol universe, so the summary of a snapshot has total_symbols = 20
\* whichever price-history or correlation calls came before it.
C13_OneQuotePerSymbol ==
    market_data # <<>> =>
        /\ Len(market_data) = Len(symbols)
        /\ \A i \in 1..Len(market_data) : market_data[i].symbol = symbols[i]
        /\ \A i, j \in 1..Len(market_data) :
              market_data[i].symbol = market_data[j].symbol => i = j
        /\ Summarize(market_data, now).total_symbols = 20

\* a snapshot taken after an unknown symbol was registered by a price-history call:
\* the store has one more entry than the snapshot has quotes
C13_Witness ==
    /\ response.op = "generate_market_data"
    /\ "ZZZ" \in DOMAIN base_prices
    /\ Len(market_data) = 20
    /\ served >= 3

\* this step is a call of generate_market_data
SnapshotCalled == response'.op = "generate_market_data" /\ served' = served + 1

\* new is old * uniform(0.95, 1.05), to the nearest mill
InJitterBand(new, old) == 95 * old - 50 <= 100 * new /\ 100 * new <= 105 * old + 50

\* C17: every snapshot call overwrites the stored ReferencePrice of every tracked
\* symbol with the call's new current price, which lies within [0.95, 1.05] times the
\* value stored before, and the Quote's current_price is the new stored value rounded
\* to 2 decimals; no other operation changes the ReferencePrice of a registered symbol.
C17_SnapshotOverwritesStore ==
    [][/\ SnapshotCalled =>
             \A i \in 1..Len(symbols) :
                 /\ InJitterBand(base_prices'[symbols[i]], base_prices[symbols[i]])
                 /\ market_data'[i].symbol = symbols[i]
                 /\ market_data'[i].current_price = Round2(base_prices'[symbols[i]])
       /\ ~SnapshotCalled =>
             \A s \in DOMAIN base_prices :
                 s \in DOMAIN base_prices' /\ base_prices'[s] = base_prices[s]]_vars

\* after a snapshot: a tracked symbol's stored price has left its initial value and is
\* the unrounded current price of its Quote
C17_Witness ==
    /\ response.op = "generate_market_data"
    /\ \E i \in 1..Len(market_data) :
          /\ base_prices[market_data[i].symbol] \notin SeqToSet(BasePriceSeq)
          /\ market_data[i].current_price = Round2(base_prices[market_data[i].symbol])
          /\ market_data[i].current_price * 10 # base_prices[market_data[i].symbol]

----------------------------------------------------------------------------
(* Properties of the cache, checked under Spec and SpecConc *)

\* this step is a handler run that ends with a response
HandlerRuns == served' = served + 1

\* a value for the key of the response was stored less than ttl ago
StoredWithinTtl(k) == k \in DOMAIN stored /\ now - stored[k].at < ttl

StoredExpired(k) == k \in DOMAIN stored /\ now >= stored[k].at + ttl

\* the entries of c under key k
EntriesOf(c, k) == {i \in 1..Len(c) : c[i].key = k}

\* C14: a cache entry is never served at or after its expiry (store time + ttl): the
\* first request for the key after expiry invokes the producer again, replaces the
\* entry as a whole with the new result and gives it the expiry now + ttl; a response
\* is always a whole stored value.
C14_ExpiredNeverServed ==
    [][HandlerRuns =>
          /\ response'.hit =>
                /\ response'.key \in DOMAIN stored
                /\ now < stored[response'.key].at + ttl
                /\ response'.value = stored[response'.key].value
          /\ StoredExpired(response'.key) =>
                /\ response'.computed
                /\ ~response'.hit
                /\ Cardinality(EntriesOf(cache', response'.key)) = 1
                /\ Entry(cache', response'.key).value = response'.value
                /\ Entry(cache', response'.key).expires = now + ttl
                /\ stored'[response'.key].at = now]_vars

\* a market summary computed again once the one before it had expired, and stored
\* with the expiry now + ttl
C14_Witness ==
    /\ response.computed
    /\ response.op = "market_summary"
    /\ response.key \in DOMAIN stored
    /\ stored[response.key].before >= 0
    /\ stored[response.key].at >= stored[response.key].before + ttl
    /\ stored[response.key].at = now
    /\ Entry(cache, response.key).expires = now + ttl
    /\ Entry(cache, response.key).value = response.value

\* the keys of the cache whose entry has not expired
LiveKeys == {k \in Keys(cache) : now < Entry(cache, k).expires}

\* the keys that leave the cache in this step
Removed == Keys(cache) \ Keys(cache')

\* this step stores a key that had no live entry while the cache is full of live ones
AdmitsIntoFull ==
    /\ HandlerRuns
    /\ response'.computed
    /\ response'.key \notin LiveKeys
    /\ Cardinality(LiveKeys) = maxsize

\* the live key that was stored or read longest ago
LeastRecentlyUsed == CHOOSE k \in LiveKeys : \A j \in LiveKeys : used[k] <= used[j]

\* C15: in every reachable state the cache holds at most its capacity of entries;
\* when a new key is stored while the cache is full of unexpired entries, exactly the
\* least recently used entry is removed to admit it; and no entry is ever removed
\* other than by expiry or by this eviction.
C15_CapacityAndLruEviction ==
    [][/\ Len(cache) <= maxsize /\ Cardinality(Keys(cache)) = Len(cache)
       /\ Len(cache') <= maxsize /\ Cardinality(Keys(cache')) = Len(cache')
       /\ AdmitsIntoFull =>
             /\ Removed \cap LiveKeys = {LeastRecentlyUsed}
             /\ response'.key \in Keys(cache')
       /\ \A k \in Removed :
             \/ k \notin LiveKeys
             \/ AdmitsIntoFull /\ k = LeastRecentlyUsed]_vars

\* after an eviction: the cache is full, a key stored less than ttl ago is gone from
\* it, and a key stored before that one is still there because it was read since
C15_Witness ==
    /\ response.computed
    /\ Len(cache) = maxsize
    /\ \E k \in DOMAIN stored \ Keys(cache) :
          /\ now < stored[k].at + ttl
          /\ \E j \in Keys(cache) : stored[j].run < stored[k].run /\ used[j] > stored[k].run

\* C3 (as amended): under any interleaving of concurrently processed requests, the
\* producer of a key is invoked at most once within the key's TTL window as long as
\* the key's entry is not evicted for capacity: a handler's check-compute-store runs
\* without a suspension point, so a second computation inside the window happens only
\* when the entry is no longer in the cache.
C3_OneComputationUnlessEvicted ==
    [][(HandlerRuns /\ response'.computed /\ StoredWithinTtl(response'.key)) =>
          response'.key \notin Keys(cache)]_vars

\* a request that was accepted before the value of its key was computed by another
\* task, and was then served that value from the cache
C3_Witness ==
    /\ response.hit
    /\ response.key \in DOMAIN stored
    /\ response.arrived < stored[response.key].run
    /\ response.value = stored[response.key].value

\* C3 (as stated): under any interleaving, the producer of a key is invoked at most
\* once within the key's TTL window.
C3_OneComputationPerWindow ==
    [][(HandlerRuns /\ response'.computed) => ~StoredWithinTtl(response'.key)]_vars

----------------------------------------------------------------------------
(* Properties of the chart and correlation handlers, checked under SpecCorr and
   SpecCharts *)

\* the matrix m has an undefined entry
HasNan(m) == \E i \in 1..Len(m) : \E j \in 1..Len(m[i]) : m[i][j] = "nan"

\* C16 (as stated): when a series given to the correlation has zero variance, the
\* request fails with an error: no matrix with NaN entries is returned and none is
\* stored in the cache.
C16_DegenerateSeriesFails ==
    /\ (response.op = "correlation_matrix" /\ response.status = 200)
          => ~HasNan(response.value.z)
    /\ \A i \in 1..Len(cache) :
          cache[i].value.kind = "correlation_matrix" => ~HasNan(cache[i].value.z)

\* this step is a run of a handler that calls generate_realistic_price_data
GeneratorRequested ==
    HandlerRuns /\ response'.op \in PriceOps \cup {"correlation_matrix"}

\* C18: generate_realistic_price_data never changes the ReferencePrice of a symbol
\* already in the store: a price-history, candlestick, volume-chart or correlation
\* request leaves every existing store entry and the tracked-symbol list unchanged;
\* its only possible store effect is a new entry for a symbol unknown until then.
C18_GeneratorKeepsStore ==
    [][GeneratorRequested =>
          /\ \A s \in DOMAIN base_prices :
                s \in DOMAIN base_prices' /\ base_prices'[s] = base_prices[s]
          /\ DOMAIN base_prices' \ DOMAIN base_prices \subseteq {Upper(response'.key[2])}
          /\ symbols' = symbols]_vars

\* a correlation computed after a snapshot had moved the store off its initial prices
\* and a chart request had registered an unknown symbol
C18_Witness ==
    /\ response.op = "correlation_matrix"
    /\ response.computed
    /\ "ZZZ" \in DOMAIN base_prices
    /\ market_data # <<>>
    /\ \A i \in 1..Len(market_data) :
          market_data[i].current_price = Round2(base_prices[market_data[i].symbol])

\* the symbols in the store that are not of the initial universe
Untracked == DOMAIN base_prices \ SeqToSet(Symbols)

\* the symbols a response or the last snapshot shows
Shown ==
    {market_data[i].symbol : i \in 1..Len(market_data)}
        \cup SeqToSet(symbols)
        \cup (IF response.value.kind = "symbols" THEN SeqToSet(response.value.symbols) ELSE {})
        \cup (IF response.value.kind = "market_heatmap" THEN SeqToSet(response.value.x) ELSE {})

\* C19: a symbol outside the initial universe receives a base price in [50, 500] the
\* first time a price history is generated for it; from then on, under any sequence
\* of price-history and snapshot calls, its store entry is never removed and never
\* changes, and the symbol never appears in a snapshot or in the list of symbols.
C19_LazySymbolRetained ==
    /\ [](\A s \in Untracked :
             /\ base_prices[s] >= 50000 /\ base_prices[s] <= 500000
             /\ s \notin Shown)
    /\ [][/\ \A s \in Untracked :
                s \in DOMAIN base_prices' /\ base_prices'[s] = base_prices[s]
          /\ (HandlerRuns /\ response'.op \in PriceOps /\ response'.status = 200) =>
                Upper(response'.symbol) \in DOMAIN base_prices']_vars

\* the symbol list requested after a snapshot that itself came after the request
\* that registered ZZZ at the top of the range
C19_Witness ==
    /\ response.value.kind = "symbols"
    /\ "ZZZ" \in Untracked
    /\ base_prices["ZZZ"] = 500000
    /\ market_data # <<>>
    /\ <<"market_heatmap", "", 0>> \in DOMAIN stored
    /\ \E k \in DOMAIN stored :
          k[1] \in PriceOps /\ stored[k].run < stored[<<"market_heatmap", "", 0>>].run

\* the live keys for the same operation and day count as k whose symbol differs from
\* k's in letter case only
CaseTwins(k) ==
    {j \in LiveKeys : j[1] = k[1] /\ j[3] = k[3] /\ j[2] # k[2] /\ Upper(j[2]) = Upper(k[2])}

\* C20: the price-history, candlestick and volume handlers build the cache key from
\* the symbol as received and pass the upper-cased symbol to the generator: a request
\* whose symbol differs only in letter case from one served within the TTL resolves
\* to the same store entry but to another cache entry, so it is a miss that invokes
\* the generator again.
C20_CaseSplitsCacheNotStore ==
    [][(HandlerRuns /\ response'.op \in PriceOps /\ response'.status = 200) =>
          /\ response'.key = <<response'.op, response'.symbol, response'.key[3]>>
          /\ Upper(response'.symbol) \in DOMAIN base_prices'
          /\ response'.symbol # Upper(response'.symbol) =>
                response'.symbol \notin DOMAIN base_prices'
          /\ (CaseTwins(response'.key) # {} /\ response'.key \notin LiveKeys) =>
                /\ response'.computed
                /\ ~response'.hit
                /\ base_prices' = base_prices
                /\ response'.key \in Keys(cache')
                /\ Len(cache) < maxsize => CaseTwins(response'.key) \subseteq Keys(cache')]_vars

\* a candlestick for zzz computed while the candlestick for ZZZ is live: two cache
\* entries, one store entry
C20_Witness ==
    /\ response.computed
    /\ response.key = <<"candlestick", "zzz", 1>>
    /\ <<"candlestick", "ZZZ", 1>> \in LiveKeys
    /\ <<"candlestick", "zzz", 1>> \in LiveKeys
    /\ stored[<<"candlestick", "ZZZ", 1>>].run < stored[<<"candlestick", "zzz", 1>>].run
    /\ "ZZZ" \in DOMAIN base_prices
    /\ "zzz" \notin DOMAIN base_prices

====
